---- MODULE Spec2Model ----
(***************************************************************************)
(* Mesh repair pipeline of neo-gear: the repair worker                     *)
(* (workers/meshlib.worker.ts), the caller side of the worker protocol     *)
(* (utils/exporters.ts, repairMeshWithWorker) and the export controller    *)
(* (hooks/useExport.ts).                                                   *)
(*                                                                         *)
(* Units: an engine progress fraction p in [0,1] is the integer 10*p       *)
(* (tenths); an overall percentage is the integer 10*percent.              *)
(* Diagnostic `log` messages change no state on either side and are left   *)
(* out of the message queues.                                              *)
(***************************************************************************)
EXTENDS Integers, Sequences, FiniteSets, TLC

\* ------------------------------------------------------------------ bounds
MaxRequests == 2
MaxHoles == 2
MaxCallbacks == 1

Requests == 1..MaxRequests
Workers == 1..MaxRequests
Main == 0

\* what the mesh engine and the input mesh may do in one repair: the perimeters of
\* the boundary loops found, averageEdgeLength, the fractions passed to a progress
\* callback, the error texts of a failed rebuild, the values an engine call throws
EngineErrors == {"e1", "e2"}

RichEngine ==
  [perimeters |-> {2, 3, 4}, maxHoles |-> MaxHoles, avgs |-> {1, 2},
   fractions |-> {2, 10}, maxCallbacks |-> MaxCallbacks, errors |-> EngineErrors,
   thrown |-> { [isError |-> TRUE, message |-> "exception"],
                [isError |-> FALSE, message |-> ""] }]

\* the engine of the system specification: the same kinds of outcome (holes filled or
\* not, progress in both passes, either pass failing, an engine call throwing), with
\* one value of each kind
PlainEngine ==
  [perimeters |-> {2}, maxHoles |-> 1, avgs |-> {1},
   fractions |-> {5}, maxCallbacks |-> 1, errors |-> {"e1"},
   thrown |-> { [isError |-> FALSE, message |-> ""] }]

CrashMessages == {"", "load failed"}

\* ------------------------------------------------------------------ state
VARIABLES
  wstate,     \* worker -> "none" | "loading" | "running" | "crashed" | "terminated"
  meshSDK,    \* worker -> module variable meshSDK: 0 (null) or an engine instance id
  sdkCalls,   \* worker -> number of createMeshSDK() invocations
  running,    \* worker -> request whose handler is inside a synchronous section (0: none)
  inbox,      \* worker -> messages posted to the worker, not yet dispatched
  outbox,     \* worker -> messages posted by the worker, not yet handled by the caller
  errEvent,   \* worker -> pending `error` event of the Worker object (<<>> or <<message>>)
  h,          \* request -> the repairMesh invocation handling it (position and locals)
  held,       \* context (Main or a worker) -> buffers it holds a usable reference to
  ex,         \* export -> the repairMeshWithWorker call of that export and its promise
  showModal, isProcessing, isComplete, progress, exportResult,  \* useExport state
  params,     \* App state: the stored GearParameters
  editHistory,\* App state: the edited interdependent parameters, oldest first
  edits,      \* number of parameter edits made
  gear,       \* a parameter set, its derived values and the geometry builds made from it
  vox,        \* the voxel size of one repair, from the quality tier to the two passes
  stl,        \* one repaired mesh and the binary STL buffer being written from it
  calls,      \* the invocations of the progress callbacks of one repair, in order
  native,     \* the native objects of one repairMesh invocation and what was done to them
  lastEdit    \* the last handleParamChange call: its arguments and the parameter it chose

workerVars == <<wstate, meshSDK, sdkCalls, running, inbox, outbox, errEvent, h, held>>
toolVars == <<params, editHistory, edits, gear, vox, stl, calls, native, lastEdit>>
mainVars == <<ex, showModal, isProcessing, isComplete, progress, exportResult, toolVars>>
vars == <<workerVars, mainVars>>

\* ------------------------------------------------------------------ buffers and messages
\* a buffer is <<request, name, copy>>; a structured clone is a different buffer
NoBuf == <<0, "none", 0>>
ReqVertices(r) == <<r, "vertices", 0>>
ReqIndices(r) == <<r, "indices", 0>>
ResVertices(r) == <<r, "meshData.vertices", 0>>
ResIndices(r) == <<r, "meshData.indices", 0>>
GeoPosition == <<0, "position.array", 0>>
GeoIndex == <<0, "index.array", 0>>
Clone(b) == <<b[1], b[2], b[3] + 1>>

Message(type, r, stage, percent, v, i, message, transfer) ==
  [type |-> type, req |-> r, stage |-> stage, progress |-> percent,
   vertices |-> v, indices |-> i, message |-> message, transfer |-> transfer]

ProgressMessage(r, stage, percent) ==
  Message("progress", r, stage, percent, NoBuf, NoBuf, <<>>, {})

\* the `complete` message posted without a transfer list
CompleteMessage_cloned(r) ==
  Message("complete", r, "", 0, <<r, "meshData.vertices", 0>>, <<r, "meshData.indices", 0>>,
          <<>>, {})

CompleteMessage(r) ==
  Message("complete", r, "", 0, ResVertices(r), ResIndices(r), <<>>,
          {ResVertices(r), ResIndices(r)})

\* catch (error): error instanceof Error ? error.message : "Unknown error"
CaughtMessage(t) == IF t.isError THEN t.message ELSE <<"Unknown error">>

\* what the receiver of m gets for buffer b: the buffer itself when it is in the
\* transfer list, a structured clone otherwise
Received(m, b) == IF b = NoBuf \/ b \in m.transfer THEN b ELSE Clone(b)

\* an error message that also hands back the input buffers
ErrorMessage_withMesh(r, t) ==
  Message("error", r, "", 0, <<r, "vertices", 0>>, <<r, "indices", 0>>, CaughtMessage(t), {})

ErrorMessage(r, t) ==
  Message("error", r, "", 0, NoBuf, NoBuf, CaughtMessage(t), {})

\* new Error(`Rebuild failed: ${e}`)
RebuildError(e) == [isError |-> TRUE, message |-> <<"Rebuild failed: ", e>>]
EngineThrow(t) == [isError |-> t.isError, message |-> <<t.message>>]

RepairRequest(r) ==
  Message("repair", r, "", 0, ReqVertices(r), ReqIndices(r), <<>>,
          {ReqVertices(r), ReqIndices(r)})

Buffers(m) == {m.vertices, m.indices} \ {NoBuf}

\* ------------------------------------------------------------------ progress mapping
Scale == 10
StageInit == 0 * Scale
StageConvert == 5 * Scale
StageFindHoles == 10 * Scale
StageFillHoles == 15 * Scale
StagePrepare == 20 * Scale
StageExtract == 95 * Scale

\* progressCallback1: progress < 0.5 ? progress * 80 : 40 + progress * 10
Pass1Percent(p) == IF p < 5 THEN p * 80 ELSE 40 * Scale + p * 10

\* progressCallback2: 50 + progress * 45
Pass2Percent(p) == 50 * Scale + p * 45

\* ------------------------------------------------------------------ hole selection
\* maxHolePerimeter = avgEdgeLength * 3.0
MaxHolePerimeter(avg) == avg * 3

\* the comparison with <= in place of <
Qualifies_inclusive(perimeter, avg) == perimeter <= MaxHolePerimeter(avg)

\* perimeter < maxHolePerimeter
Qualifies(perimeter, avg) == perimeter < MaxHolePerimeter(avg)

\* the loop of lines 117-125: edges of qualifying holes, in detection order
RECURSIVE SmallHoles(_, _, _)
SmallHoles(holes, avg, i) ==
  IF i > Len(holes) THEN <<>>
  ELSE (IF Qualifies(holes[i], avg) THEN <<i>> ELSE <<>>) \o SmallHoles(holes, avg, i + 1)

HoleSeqs(eng) == UNION { [1..n -> eng.perimeters] : n \in 0..eng.maxHoles }

\* an error check that never fires
HasError_ignored(res) == FALSE

\* rebuildResult.hasError()
HasError(res) == res \in EngineErrors

\* rebuildResult1.error() as evaluated by the pass-2 check (line 232): the error of
\* pass 1's result, which holds a value at that point; reading the error of a
\* value-holding result is undefined, so any text may come back
Result1ErrorAtPass2(eng, res1) ==
  IF res1 # "ok" THEN {res1} ELSE eng.errors \cup {"undefined"}

\* ------------------------------------------------------------------ handler records
\* position and locals of one repairMesh invocation; results and extracted record
\* what the invocation did (the result of each sdk.rebuildMesh call it made, in
\* order, and whether extractMeshData ran to its end) and outlive its return
NoHandler ==
  [pc |-> "none", worker |-> 0, vertices |-> NoBuf, indices |-> NoBuf, sdk |-> 0,
   holes |-> <<>>, avg |-> 0, edgeVec |-> <<>>, fillCalled |-> FALSE, fillArg |-> <<>>,
   results |-> <<>>, extracted |-> FALSE]

\* non-decreasing sequences of fractions: what the engine passes to a progress
\* callback during one rebuild
CallbackSeqs(eng) ==
  { cb \in UNION { [1..n -> eng.fractions] : n \in 0..eng.maxCallbacks } :
      \A k \in 1..(Len(cb) - 1) : cb[k] <= cb[k + 1] }

\* ------------------------------------------------------------------ export records
\* cancelled: cancel() was called during the repair, which is still pending
NoExport == [pc |-> "none", worker |-> 0, cause |-> "none", value |-> <<>>, cancelled |-> FALSE]

\* useState({ stage: "", progress: 0 })
NoProgress == [stage |-> "", progress |-> 0]

Post(w, msgs) == outbox' = [outbox EXCEPT ![w] = @ \o msgs]

\* the handler of r may take a step of its synchronous section
InSection(r, pc) ==
  /\ h[r].pc = pc
  /\ wstate[h[r].worker] = "running"
  /\ running[h[r].worker] = r

\* the handler returns after posting msgs: its locals are gone, `did` is what it did
Return(r, msgs, did) ==
  /\ Post(h[r].worker, msgs)
  /\ running' = [running EXCEPT ![h[r].worker] = 0]
  /\ h' = [h EXCEPT ![r] = [NoHandler EXCEPT !.pc = "done", !.worker = h[r].worker,
                                            !.results = did.results,
                                            !.extracted = did.extracted]]

Did(results, extracted) == [results |-> results, extracted |-> extracted]

\* a catch block that swallows the failure
Catch_silent(r, before, t, did) == Return(r, before, did)

\* the catch block of repairMesh (lines 257-262), after `before` was posted in the
\* try block: the error message is posted and the handler returns
Catch(r, before, t, did) == Return(r, before \o <<ErrorMessage(r, t)>>, did)

\* ------------------------------------------------------------------ numbers
\* a JavaScript number is modelled as a rational <<numerator, denominator>> in
\* lowest terms with a positive denominator
RECURSIVE GCD(_, _)
GCD(a, b) == IF b = 0 THEN a ELSE GCD(b, a % b)

Abs(n) == IF n < 0 THEN -n ELSE n

Rat(n, d) ==
  LET g == GCD(Abs(n), Abs(d))
      sg == IF d < 0 THEN -1 ELSE 1
  IN <<(sg * n) \div g, (sg * d) \div g>>

Num(n) == <<n, 1>>
\* a and b over their least common denominator: <<numerator of a, numerator of b, denominator>>
Common(a, b) ==
  LET g == GCD(a[2], b[2])
  IN <<a[1] * (b[2] \div g), b[1] * (a[2] \div g), (a[2] \div g) * b[2]>>

RAdd(a, b) == Rat(Common(a, b)[1] + Common(a, b)[2], Common(a, b)[3])
RSub(a, b) == Rat(Common(a, b)[1] - Common(a, b)[2], Common(a, b)[3])
RMul(a, b) ==
  LET g1 == GCD(Abs(a[1]), b[2])
      g2 == GCD(Abs(b[1]), a[2])
  IN Rat((a[1] \div g1) * (b[1] \div g2), (a[2] \div g2) * (b[2] \div g1))
\* a / b for b # 0
RDiv(a, b) == RMul(a, Rat(b[2], b[1]))
RLt(a, b) == Common(a, b)[1] < Common(a, b)[2]
RLe(a, b) == Common(a, b)[1] <= Common(a, b)[2]
\* Math.max
RMax(a, b) == IF RLt(a, b) THEN b ELSE a
\* Math.round: the integer nearest to a, halves going up
RRound(a) == Num((2 * a[1] + a[2]) \div (2 * a[2]))

\* ------------------------------------------------------------------ gear parameters
\* DEFAULT_GEAR_PARAMS, the fields the derived dimensions and the build read
DEFAULT_GEAR_PARAMS ==
  [teethCount |-> Num(32), module |-> Num(2), rootDiameter |-> Num(59),
   outerDiameter |-> Num(68), pressureAngle |-> Num(20), clearance |-> Rat(1, 4),
   boreDiameter |-> Num(8), holeType |-> "round", thickness |-> Num(10),
   helixAngle |-> Num(0), profileShift |-> Num(0)]

\* nothing is in progress
Idle == [pc |-> "idle"]

Init ==
  /\ wstate = [w \in Workers |-> "none"]
  /\ meshSDK = [w \in Workers |-> 0]
  /\ sdkCalls = [w \in Workers |-> 0]
  /\ running = [w \in Workers |-> 0]
  /\ inbox = [w \in Workers |-> <<>>]
  /\ outbox = [w \in Workers |-> <<>>]
  /\ errEvent = [w \in Workers |-> <<>>]
  /\ h = [r \in Requests |-> NoHandler]
  /\ held = [c \in {Main} \cup Workers |-> IF c = Main THEN {GeoPosition, GeoIndex} ELSE {}]
  /\ ex = [e \in Requests |-> NoExport]
  /\ showModal = FALSE
  /\ isProcessing = FALSE
  /\ isComplete = FALSE
  /\ progress = NoProgress
  /\ exportResult = 0
  /\ params = DEFAULT_GEAR_PARAMS
  /\ editHistory = <<>>
  /\ edits = 0
  /\ gear = Idle
  /\ vox = Idle
  /\ stl = Idle
  /\ calls = <<>>
  /\ native = Idle
  /\ lastEdit = Idle

\* ------------------------------------------------------------------ the worker
\* the worker script has loaded: self.onmessage is installed
WorkerLoaded(w) ==
  /\ wstate[w] = "loading"
  /\ wstate' = [wstate EXCEPT ![w] = "running"]
  /\ UNCHANGED <<meshSDK, sdkCalls, running, inbox, outbox, errEvent, h, held>>
  /\ UNCHANGED mainVars

\* the worker fails outside the message protocol (its script cannot be loaded or
\* evaluated): the Worker object gets an `error` event
WorkerCrash(w) ==
  /\ wstate[w] = "loading"
  /\ \E msg \in CrashMessages :
       /\ wstate' = [wstate EXCEPT ![w] = "crashed"]
       /\ errEvent' = [errEvent EXCEPT ![w] = <<msg>>]
  /\ UNCHANGED <<meshSDK, sdkCalls, running, inbox, outbox, h, held>>
  /\ UNCHANGED mainVars

\* self.onmessage -> repairMesh up to the end of `await initMeshLib()`
Dispatch(w) ==
  /\ wstate[w] = "running"
  /\ running[w] = 0
  /\ inbox[w] # <<>>
  /\ LET m == Head(inbox[w])
         r == m.req
         v == Received(m, m.vertices)
         i == Received(m, m.indices)
         first == <<ProgressMessage(r, "Initializing MeshLib...", StageInit)>>
     IN /\ inbox' = [inbox EXCEPT ![w] = Tail(@)]
        /\ held' = [held EXCEPT ![w] = @ \cup ({v, i} \ {NoBuf})]
        /\ IF m.type # "repair"
           THEN UNCHANGED <<outbox, h, sdkCalls, running>>
           ELSE /\ Post(w, first)
                /\ IF meshSDK[w] = 0
                   THEN /\ sdkCalls' = [sdkCalls EXCEPT ![w] = @ + 1]
                        /\ h' = [h EXCEPT ![r] = [@ EXCEPT !.pc = "awaitSDK", !.vertices = v,
                                                  !.indices = i, !.sdk = sdkCalls[w] + 1]]
                        /\ UNCHANGED running
                   ELSE /\ h' = [h EXCEPT ![r] = [@ EXCEPT !.pc = "convert", !.vertices = v,
                                                  !.indices = i, !.sdk = meshSDK[w]]]
                        /\ running' = [running EXCEPT ![w] = r]
                        /\ UNCHANGED sdkCalls
  /\ UNCHANGED <<wstate, meshSDK, errEvent>>
  /\ UNCHANGED mainVars

\* createMeshSDK() resolves: meshSDK = await createMeshSDK(); return meshSDK
SDKResolved(r) ==
  /\ h[r].pc = "awaitSDK"
  /\ wstate[h[r].worker] = "running"
  /\ running[h[r].worker] = 0
  /\ meshSDK' = [meshSDK EXCEPT ![h[r].worker] = h[r].sdk]
  /\ running' = [running EXCEPT ![h[r].worker] = r]
  /\ h' = [h EXCEPT ![r].pc = "convert"]
  /\ UNCHANGED <<wstate, sdkCalls, inbox, outbox, errEvent, held>>
  /\ UNCHANGED mainVars

\* createMeshSDK() rejects: the await throws into the catch block
SDKRejected(r, eng) ==
  /\ h[r].pc = "awaitSDK"
  /\ wstate[h[r].worker] = "running"
  /\ running[h[r].worker] = 0
  /\ \E t \in eng.thrown : Catch(r, <<>>, EngineThrow(t), Did(<<>>, FALSE))
  /\ UNCHANGED <<wstate, meshSDK, sdkCalls, inbox, errEvent, held>>
  /\ UNCHANGED mainVars

\* lines 127-140, with edgeVec the qualifying loops: if (smallHoleCount > 0)
\* { "Filling holes...", sdk.fillHoles(originalMesh, edgeVec, fillParams) }
FillHoles(r, eng, before, holes, avg, edgeVec) ==
  LET found == [h[r] EXCEPT !.pc = "release", !.holes = holes, !.avg = avg,
                            !.edgeVec = edgeVec]
      stage == <<ProgressMessage(r, "Filling holes...", StageFillHoles)>>
  IN IF Len(edgeVec) > 0
     THEN \/ /\ Post(h[r].worker, before \o stage)
             /\ h' = [h EXCEPT ![r] = [found EXCEPT !.fillCalled = TRUE, !.fillArg = edgeVec]]
             /\ UNCHANGED running
          \/ \E t \in eng.thrown :
               Catch(r, before \o stage, EngineThrow(t), Did(<<>>, FALSE))
     ELSE /\ Post(h[r].worker, before)
          /\ h' = [h EXCEPT ![r] = found]
          /\ UNCHANGED running

\* lines 94-144 up to the releases: "Converting geometry...", createMeshLibMesh,
\* "Finding holes...", findHoleRepresentiveEdges, the selection loop, the fill
HoleStage(r, eng) ==
  /\ InSection(r, "convert")
  /\ LET convert == <<ProgressMessage(r, "Converting geometry...", StageConvert)>>
         find == <<ProgressMessage(r, "Finding holes...", StageFindHoles)>>
     IN \/ \E t \in eng.thrown : Catch(r, convert, EngineThrow(t), Did(<<>>, FALSE))
        \/ \E holes \in HoleSeqs(eng), avg \in eng.avgs :
             IF Len(holes) = 0
             THEN /\ Post(h[r].worker, convert \o find)
                  /\ h' = [h EXCEPT ![r].pc = "rebuild"]
                  /\ UNCHANGED running
             ELSE FillHoles(r, eng, convert \o find, holes, avg, SmallHoles(holes, avg, 1))
  /\ UNCHANGED <<wstate, meshSDK, sdkCalls, inbox, errEvent, held>>
  /\ UNCHANGED mainVars

\* the messages posted by progressCallback1 / progressCallback2 for the fractions cb
Pass1Messages(r, cb) ==
  [k \in 1..Len(cb) |->
     ProgressMessage(r, "Making your model watertight", Pass1Percent(cb[k]))]

\* pass 2 announcing itself as a new preparation
Pass2Messages_restart(r, cb) ==
  [k \in 1..Len(cb) |-> ProgressMessage(r, "Preparing rebuild...", Pass2Percent(cb[k]))]

Pass2Messages(r, cb) ==
  [k \in 1..Len(cb) |->
     ProgressMessage(r, "Fixing self-intersections and optimizng mesh", Pass2Percent(cb[k]))]

\* lines 241-256: extractMeshData, the releases, and the `complete` message with its
\* buffers in the transfer list; extractMeshData may throw
ExtractAndComplete(r, eng, before, results) ==
  \/ LET m == CompleteMessage(r) IN
     /\ Return(r, before \o <<m>>, Did(results, TRUE))
     /\ held' = [held EXCEPT ![h[r].worker] = (@ \cup Buffers(m)) \ m.transfer]
  \/ /\ \E t \in eng.thrown : Catch(r, before, EngineThrow(t), Did(results, FALSE))
     /\ UNCHANGED held

\* lines 205-240: pass 2 (standard cleanup) on the pass-1 mesh, its error check,
\* "Preparing for download"
Pass2(r, eng, before, res1) ==
  \E cb \in CallbackSeqs(eng), res2 \in {"ok"} \cup eng.errors :
    LET posted == before \o Pass2Messages(r, cb) IN
    IF HasError(res2)
    THEN /\ \E e \in Result1ErrorAtPass2(eng, res1) :
              Catch(r, posted, RebuildError(e), Did(<<res1, res2>>, FALSE))
         /\ UNCHANGED held
    ELSE ExtractAndComplete(r, eng, posted \o
           <<ProgressMessage(r, "Preparing for download", StageExtract)>>, <<res1, res2>>)

\* lines 142-256: the hole collections are released (when holes were found), then
\* "Preparing rebuild...", pass 1 (sharpening) with its error check, pass 2,
\* extraction and the `complete` message
Rebuild(r, eng) ==
  /\ InSection(r, "release") \/ InSection(r, "rebuild")
  /\ \E cb \in CallbackSeqs(eng), res1 \in {"ok"} \cup eng.errors :
       LET posted == <<ProgressMessage(r, "Preparing rebuild...", StagePrepare)>>
                       \o Pass1Messages(r, cb)
       IN IF HasError(res1)
          THEN /\ Catch(r, posted, RebuildError(res1), Did(<<res1>>, FALSE))
               /\ UNCHANGED held
          ELSE Pass2(r, eng, posted, res1)
  /\ UNCHANGED <<wstate, meshSDK, sdkCalls, inbox, errEvent>>
  /\ UNCHANGED mainVars

WorkerStep(eng) ==
  \/ \E w \in Workers : WorkerLoaded(w) \/ WorkerCrash(w) \/ Dispatch(w)
  \/ \E r \in Requests :
       \/ SDKResolved(r) \/ SDKRejected(r, eng) \/ HoleStage(r, eng) \/ Rebuild(r, eng)

\* ------------------------------------------------------------------ posting a request
\* worker.postMessage({type: "repair", vertices, indices, voxelMultiplier},
\*                    {transfer: [vertices.buffer, indices.buffer]})
\* vertices and indices are copies made by the sender just before
SendRepair(w, r) ==
  LET m == RepairRequest(r) IN
  /\ inbox' = [inbox EXCEPT ![w] = Append(@, m)]
  /\ held' = [held EXCEPT ![Main] = (@ \cup Buffers(m)) \ m.transfer]
  /\ h' = [h EXCEPT ![r] = [@ EXCEPT !.pc = "queued", !.worker = w]]

\* ------------------------------------------------------------------ a worker on its own
\* some script holding the Worker object posts the next repair request to worker 1
PostRepair(r) ==
  /\ h[r].pc = "none"
  /\ \A q \in Requests : q < r => h[q].pc # "none"
  /\ wstate[1] \in {"none", "loading", "running"}
  /\ wstate' = [wstate EXCEPT ![1] = IF @ = "none" THEN "loading" ELSE @]
  /\ SendRepair(1, r)
  /\ UNCHANGED <<meshSDK, sdkCalls, running, outbox, errEvent>>
  /\ UNCHANGED mainVars

WorkerNext == WorkerStep(RichEngine) \/ \E r \in Requests : PostRepair(r)

WorkerSpec == Init /\ [][WorkerNext]_vars

\* ------------------------------------------------------------------ the export controller
\* resetState of useExport (onCancel of ExportButtons is the same five assignments)
ResetState ==
  /\ showModal' = FALSE
  /\ isComplete' = FALSE
  /\ isProcessing' = FALSE
  /\ progress' = NoProgress
  /\ exportResult' = 0

\* openExport: the export buttons are disabled while the modal is shown
OpenExport ==
  /\ ~showModal
  /\ showModal' = TRUE
  /\ isComplete' = FALSE
  /\ isProcessing' = FALSE
  /\ progress' = NoProgress
  /\ exportResult' = 0
  /\ UNCHANGED <<workerVars, ex, toolVars>>

\* cancel: the Cancel / Close button of the modal, or the dialog being dismissed
Cancel ==
  /\ showModal
  /\ ResetState
  /\ ex' = [e \in Requests |->
             IF ex[e].pc = "pending" THEN [ex[e] EXCEPT !.cancelled = TRUE] ELSE ex[e]]
  /\ UNCHANGED <<workerVars, toolVars>>

\* download: the Download button, shown once isComplete
Download ==
  /\ showModal
  /\ isComplete
  /\ IF exportResult = 0
     THEN UNCHANGED <<showModal, isComplete, isProcessing, progress, exportResult>>
     ELSE ResetState
  /\ UNCHANGED <<workerVars, ex, toolVars>>

\* processExport up to its first await (the 100 ms timer): the Start Export button,
\* shown while the export is neither processing nor complete
ProcessExport(e) ==
  /\ showModal /\ ~isProcessing /\ ~isComplete
  /\ ex[e].pc = "none"
  /\ \A q \in Requests : q < e => ex[q].pc # "none"
  /\ isProcessing' = TRUE
  /\ progress' = [stage |-> "Starting export...", progress |-> 1 * Scale]
  /\ ex' = [ex EXCEPT ![e].pc = "delay"]
  /\ UNCHANGED <<workerVars, showModal, isComplete, exportResult, toolVars>>

\* ------------------------------------------------------------------ repairMeshWithWorker
\* one worker kept and used again by later exports
NewWorker_shared ==
  IF wstate[1] \in {"loading", "running"} THEN 1
  ELSE CHOOSE w \in Workers : wstate[w] = "none" /\ \A v \in Workers : v < w => wstate[v] # "none"

\* new Worker(...): a worker object that did not exist before
NewWorker == CHOOSE w \in Workers : wstate[w] = "none" /\ \A v \in Workers : v < w => wstate[v] # "none"

\* the timer of processExport fires: exportTo...WithRepair -> repairMeshWithWorker,
\* lines 285-356: copy the geometry, create the worker, install the handlers, post
RepairMeshWithWorker(e) ==
  /\ ex[e].pc = "delay"
  /\ LET w == NewWorker IN
     /\ wstate' = [wstate EXCEPT ![w] = IF @ = "none" THEN "loading" ELSE @]
     /\ SendRepair(w, e)
     /\ ex' = [ex EXCEPT ![e] = [@ EXCEPT !.pc = "pending", !.worker = w]]
  /\ UNCHANGED <<meshSDK, sdkCalls, running, outbox, errEvent>>
  /\ UNCHANGED <<showModal, isProcessing, isComplete, progress, exportResult, toolVars>>

\* onerror rejecting without terminating the worker
TerminateOn_protocolOnly(kind) == kind \in {"complete", "error"}

\* the outcomes on which the caller calls worker.terminate() (lines 327, 333, 341)
TerminateOn(kind) == kind \in {"complete", "error", "crash"}

\* worker.terminate(): the context is destroyed, with what it held and what was queued
Terminate(w, gained) ==
  /\ wstate' = [wstate EXCEPT ![w] = "terminated"]
  /\ running' = [running EXCEPT ![w] = 0]
  /\ inbox' = [inbox EXCEPT ![w] = <<>>]
  /\ outbox' = [outbox EXCEPT ![w] = <<>>]
  /\ errEvent' = [errEvent EXCEPT ![w] = <<>>]
  /\ held' = [held EXCEPT ![w] = {}, ![Main] = @ \cup gained]
  /\ h' = [r \in Requests |->
             IF h[r].worker = w THEN [NoHandler EXCEPT !.pc = "gone", !.worker = w] ELSE h[r]]

\* the event is consumed, the worker stays
Consume(w, gained) ==
  /\ outbox' = [outbox EXCEPT ![w] = IF @ = <<>> THEN @ ELSE Tail(@)]
  /\ errEvent' = [errEvent EXCEPT ![w] = <<>>]
  /\ held' = [held EXCEPT ![Main] = @ \cup gained]
  /\ UNCHANGED <<wstate, running, inbox, h>>

\* a catch block that reports the failure and leaves the modal as it is
ExportFailed_noCancel(e, kind, err) ==
  /\ ex' = [ex EXCEPT ![e] = [@ EXCEPT !.pc = "rejected", !.cause = kind, !.value = err,
                                       !.cancelled = FALSE]]
  /\ isProcessing' = FALSE
  /\ UNCHANGED <<showModal, isComplete, progress, exportResult>>

\* reject(...) reaches the catch block of processExport: alert, cancel(), finally
ExportFailed(e, kind, err) ==
  /\ ex' = [ex EXCEPT ![e] = [@ EXCEPT !.pc = "rejected", !.cause = kind, !.value = err,
                                       !.cancelled = FALSE]]
  /\ ResetState

\* resolve(...) resumes exportTo...WithRepair, which reads the returned buffers into
\* the file, and then processExport after its await
ExportSucceeded(e, v, i) ==
  /\ ex' = [ex EXCEPT ![e] = [@ EXCEPT !.pc = "resolved", !.cause = "complete",
                                       !.value = <<v, i>>, !.cancelled = FALSE]]
  /\ progress' = [stage |-> "Complete!", progress |-> 100 * Scale]
  /\ exportResult' = e
  /\ isComplete' = TRUE
  /\ isProcessing' = FALSE
  /\ UNCHANGED showModal

\* new Error(error.message || "Worker error")
CrashError(msg) == [isError |-> TRUE, message |-> IF msg = "" THEN <<"Worker error">> ELSE <<msg>>]

\* new Error(message)
ProtocolError(message) == [isError |-> TRUE, message |-> message]

\* worker.onmessage (lines 314-338)
CallerOnMessage(e) ==
  LET w == ex[e].worker IN
  /\ ex[e].pc = "pending"
  /\ wstate[w] # "terminated"
  /\ outbox[w] # <<>>
  /\ LET m == Head(outbox[w])
         v == Received(m, m.vertices)
         i == Received(m, m.indices)
     IN CASE m.type = "progress" ->
               /\ Consume(w, {})
               /\ progress' = [stage |-> m.stage, progress |-> m.progress]
               /\ UNCHANGED <<ex, showModal, isProcessing, isComplete, exportResult>>
          [] m.type = "complete" ->
               /\ IF TerminateOn("complete") THEN Terminate(w, {v, i}) ELSE Consume(w, {v, i})
               /\ ExportSucceeded(e, v, i)
          [] m.type = "error" ->
               /\ IF TerminateOn("error") THEN Terminate(w, {}) ELSE Consume(w, {})
               /\ ExportFailed(e, "error", ProtocolError(m.message))
  /\ UNCHANGED <<meshSDK, sdkCalls, toolVars>>

\* worker.onerror (lines 340-343)
CallerOnError(e) ==
  LET w == ex[e].worker IN
  /\ ex[e].pc = "pending"
  /\ wstate[w] # "terminated"
  /\ errEvent[w] # <<>>
  /\ IF TerminateOn("crash") THEN Terminate(w, {}) ELSE Consume(w, {})
  /\ ExportFailed(e, "crash", CrashError(errEvent[w][1]))
  /\ UNCHANGED <<meshSDK, sdkCalls, toolVars>>

MainStep ==
  \/ OpenExport
  \/ Cancel
  \/ Download
  \/ \E e \in Requests :
       \/ ProcessExport(e) \/ RepairMeshWithWorker(e) \/ CallerOnMessage(e) \/ CallerOnError(e)

Next == WorkerStep(PlainEngine) \/ MainStep

Spec == Init /\ [][Next]_vars

\* ------------------------------------------------------------------ what a worker posted
\* under WorkerSpec nothing takes messages out of outbox: it holds every message the
\* worker has posted, in posting order
OfRequest(r) ==
  IF h[r].worker = 0 THEN <<>>
  ELSE SelectSeq(outbox[h[r].worker], LAMBDA m : m.req = r)

ProgressOf(r) == SelectSeq(OfRequest(r), LAMBDA m : m.type = "progress")

Count(ms, type) == Cardinality({k \in 1..Len(ms) : ms[k].type = type})

StagePosted(r, stage) == \E k \in 1..Len(OfRequest(r)) : OfRequest(r)[k].stage = stage

\* C1: within one repair operation the progress values posted by the worker (stage
\* markers and callback values) never decrease.
C1_ProgressNonDecreasing ==
  \A r \in Requests :
    \A k \in 1..(Len(ProgressOf(r)) - 1) :
      ProgressOf(r)[k].progress <= ProgressOf(r)[k + 1].progress

\* C2: a repair request gets at most one terminal message (`complete` or `error`),
\* exactly one once its handler has returned and none before; nothing is posted for
\* the request after the terminal message; an `error` message carries no buffers.
C2_OneTerminalMessage ==
  \A r \in Requests :
    LET ms == OfRequest(r)
        terminals == {k \in 1..Len(ms) : ms[k].type \in {"complete", "error"}}
    IN /\ Cardinality(terminals) = (IF h[r].pc = "done" THEN 1 ELSE 0)
       /\ \A k \in terminals : k = Len(ms)
       /\ \A k \in 1..Len(ms) :
            ms[k].type = "error" =>
              ms[k].vertices = NoBuf /\ ms[k].indices = NoBuf /\ ms[k].transfer = {}

C2_Witness ==
  \E r \in Requests :
    /\ h[r].pc = "done"
    /\ Len(OfRequest(r)) > 1
    /\ OfRequest(r)[Len(OfRequest(r))].type = "error"

\* C3: once a rebuild pass has reported an error, sdk.rebuildMesh is not entered
\* again (no retry, no pass 2 after a pass-1 failure), extraction does not run, no
\* `complete` message is posted and exactly one `error` message is.
C3_RebuildFailureAborts ==
  \A r \in Requests :
    \A k \in 1..Len(h[r].results) :
      h[r].results[k] \in EngineErrors =>
        /\ Len(h[r].results) = k
        /\ ~h[r].extracted
        /\ Count(OfRequest(r), "complete") = 0
        /\ Count(OfRequest(r), "error") = 1

C3_Witness ==
  \E r \in Requests :
    /\ h[r].pc = "done"
    /\ Len(h[r].results) = 1
    /\ h[r].results[1] \in EngineErrors

\* C4: the error message of a rebuild failure carries the error text reported by
\* the pass that failed.
C4_ErrorOfFailedPass ==
  \A r \in Requests :
    \A k \in 1..Len(h[r].results) :
      h[r].results[k] \in EngineErrors =>
        LET ms == OfRequest(r) IN
        /\ Len(ms) > 0
        /\ ms[Len(ms)].type = "error"
        /\ ms[Len(ms)].message = <<"Rebuild failed: ", h[r].results[k]>>

\* C5: the loops passed to fillHoles are exactly the detected loops whose perimeter
\* is strictly below 3 x avgEdgeLength, each once; with no such loop fillHoles is
\* not called and "Filling holes..." is not posted.
C5_FillsOnlySmallHoles ==
  \A r \in Requests :
    LET small == {k \in 1..Len(h[r].holes) : h[r].holes[k] < 3 * h[r].avg} IN
    /\ h[r].pc = "release" =>
         /\ h[r].fillCalled <=> small # {}
         /\ {h[r].fillArg[k] : k \in 1..Len(h[r].fillArg)} = small
         /\ Len(h[r].fillArg) = Cardinality(small)
         /\ StagePosted(r, "Filling holes...") <=> small # {}
    /\ h[r].pc = "rebuild" => ~StagePosted(r, "Filling holes...")

C5_Witness ==
  \E r \in Requests :
    /\ h[r].pc = "release"
    /\ Len(h[r].holes) = 2
    /\ h[r].fillArg = <<2>>
    /\ h[r].holes[1] = 3 * h[r].avg

\* C6: a worker constructs the mesh engine at most once, whatever the number and
\* timing of the repair requests it receives.
C6_EngineConstructedOnce == \A w \in Workers : sdkCalls[w] <= 1

\* ------------------------------------------------------------------ the caller
Settled(e) == ex[e].pc \in {"resolved", "rejected"}

InFlight == UNION { {inbox[w][k] : k \in 1..Len(inbox[w])} \cup
                    {outbox[w][k] : k \in 1..Len(outbox[w])} : w \in Workers }

\* C7: whenever the promise of repairMeshWithWorker has settled, its worker has been
\* terminated; a `complete` resolves it, an `error` message or a worker crash
\* rejects it with an Error.
C7_WorkerTornDownOnSettle ==
  \A e \in Requests :
    /\ Settled(e) => wstate[ex[e].worker] = "terminated"
    /\ ex[e].pc = "resolved" <=> ex[e].cause = "complete"
    /\ ex[e].pc = "rejected" <=> ex[e].cause \in {"error", "crash"}
    /\ ex[e].pc = "rejected" => ex[e].value.isError /\ ex[e].value.message # <<>>

C7_Witness ==
  \E e \in Requests :
    /\ ex[e].pc = "rejected"
    /\ ex[e].cause = "crash"
    /\ ex[e].value.message = <<"Worker error">>
    /\ wstate[ex[e].worker] = "terminated"

\* C8: cancelling while a repair is in progress terminates the worker running it.
C8_CancelTerminatesWorker ==
  [][Cancel => \A e \in Requests :
                 ex[e].pc = "pending" => wstate'[ex[e].worker] = "terminated"]_vars

\* C9: every repair export has a worker of its own, created for it, and a worker is
\* posted exactly one repair request in its lifetime and constructs at most one
\* engine instance.
C9_OneWorkerPerExport ==
  /\ \A e1, e2 \in Requests :
       e1 # e2 /\ ex[e1].worker # 0 /\ ex[e2].worker # 0 => ex[e1].worker # ex[e2].worker
  /\ \A w \in Workers :
       /\ Cardinality({r \in Requests : h[r].worker = w}) = (IF wstate[w] = "none" THEN 0 ELSE 1)
       /\ Cardinality({e \in Requests : ex[e].worker = w}) = (IF wstate[w] = "none" THEN 0 ELSE 1)
       /\ Len(inbox[w]) <= 1
       /\ sdkCalls[w] <= 1

C9_Witness ==
  \E e1, e2 \in Requests :
    /\ e1 # e2
    /\ ex[e1].pc = "pending" /\ ex[e2].pc = "pending"
    /\ wstate[ex[e1].worker] = "running" /\ wstate[ex[e2].worker] = "running"
    /\ h[e1].pc = "awaitSDK" /\ h[e2].pc = "awaitSDK"

\* C10: every buffer carried by a message is in its transfer list; a buffer in
\* flight is held by no context; no buffer is held by two contexts; a handler
\* that has yet to read its input buffers holds them; the source geometry's own
\* buffers never leave the caller.
C10_BuffersTransferred ==
  /\ \A m \in InFlight :
       /\ Buffers(m) \subseteq m.transfer
       /\ \A c \in {Main} \cup Workers : Buffers(m) \cap held[c] = {}
  /\ \A c, d \in {Main} \cup Workers : c # d => held[c] \cap held[d] = {}
  /\ \A r \in Requests :
       h[r].pc \in {"awaitSDK", "convert"} =>
         {h[r].vertices, h[r].indices} \subseteq held[h[r].worker]
  /\ \A e \in Requests :
       ex[e].pc = "resolved" => {ex[e].value[1], ex[e].value[2]} \subseteq held[Main]
  /\ {GeoPosition, GeoIndex} \subseteq held[Main]

C10_Witness ==
  \E e \in Requests :
    /\ ex[e].pc = "resolved"
    /\ ex[e].value = <<ResVertices(e), ResIndices(e)>>
    /\ ReqVertices(e) \notin held[Main]

\* ------------------------------------------------------------------ the caller on its own
\* some script calls exportToSTLWithRepair / exportTo3MFWithRepair, which call
\* repairMeshWithWorker at once
CallExport(e) ==
  /\ ex[e].pc = "none"
  /\ \A q \in Requests : q < e => ex[q].pc # "none"
  /\ ex' = [ex EXCEPT ![e].pc = "delay"]
  /\ UNCHANGED <<workerVars, showModal, isProcessing, isComplete, progress, exportResult,
                 toolVars>>

CallerNext ==
  \/ WorkerStep(PlainEngine)
  \/ \E e \in Requests :
       \/ CallExport(e) \/ RepairMeshWithWorker(e) \/ CallerOnMessage(e) \/ CallerOnError(e)

\* the event loops at work: a loading worker finishes loading or fails, a worker
\* runs its queued tasks, createMeshSDK() settles and every engine call returns or
\* throws, and the main thread runs the handlers of the events queued for it
Fairness ==
  /\ \A w \in Workers : WF_vars(WorkerLoaded(w) \/ WorkerCrash(w)) /\ WF_vars(Dispatch(w))
  /\ \A r \in Requests :
       /\ WF_vars(SDKResolved(r) \/ SDKRejected(r, PlainEngine))
       /\ WF_vars(HoleStage(r, PlainEngine))
       /\ WF_vars(Rebuild(r, PlainEngine))
       /\ WF_vars(CallerOnMessage(r))
       /\ WF_vars(CallerOnError(r))

LiveSpec == Init /\ [][CallerNext]_vars /\ Fairness

\* C11: once repairMeshWithWorker has posted its request the promise eventually
\* settles, and a request the worker has started to handle eventually settles it
\* through a terminal message (`complete` or `error`) of the worker.
C11_RepairTerminates ==
  \A e \in Requests :
    /\ (ex[e].pc = "pending") ~> Settled(e)
    /\ (h[e].pc \in {"awaitSDK", "convert", "release", "rebuild"})
         ~> (Settled(e) /\ ex[e].cause \in {"complete", "error"})

C11_Witness ==
  \E e \in Requests :
    /\ ex[e].pc = "resolved"
    /\ ex[e].value = <<ResVertices(e), ResIndices(e)>>
    /\ \E q \in Requests : ex[q].pc = "rejected" /\ ex[q].cause = "error"

\* ------------------------------------------------------------------ voxel size
MaxEdge == 5

exportVars == <<ex, showModal, isProcessing, isComplete, progress, exportResult>>

VoxelQualities == {"low", "medium", "ultra"}

\* VOXEL_QUALITY_MULTIPLIERS
VOXEL_QUALITY_MULTIPLIERS(q) ==
  CASE q = "low" -> Rat(1, 10)
    [] q = "medium" -> Rat(75, 1000)
    [] q = "ultra" -> Rat(5, 100)
    [] OTHER -> "undefined"

\* the default of the voxelQuality parameter of exportTo...WithRepair and of
\* repairMeshWithWorker
DefaultQuality(q) == IF q = "undefined" THEN "ultra" ELSE q

\* the default of the voxelMultiplier parameter of repairMesh
DefaultMultiplier(mult) == IF mult = "undefined" THEN Rat(5, 100) ELSE mult

\* the tier is chosen (the quality buttons of the modal, or a caller that passes
\* no tier) and the export is started
SelectVoxelQuality(q) ==
  /\ vox.pc = "idle"
  /\ vox' = [pc |-> "selected", tier |-> q]
  /\ UNCHANGED <<workerVars, exportVars, calls, native, lastEdit, params, editHistory, edits, gear, stl>>

\* repairMeshWithWorker, lines 348-355: the multiplier of the tier goes into the
\* request
PostVoxelMultiplier ==
  /\ vox.pc = "selected"
  /\ vox' = [pc |-> "requested", tier |-> vox.tier,
             sent |-> VOXEL_QUALITY_MULTIPLIERS(DefaultQuality(vox.tier))]
  /\ UNCHANGED <<workerVars, exportVars, calls, native, lastEdit, params, editHistory, edits, gear, stl>>

\* the edge length the voxel size is derived from, with the length measured before
\* the hole filling
AverageEdgeLength_beforeFill(v) == v.avgBefore

\* line 153: originalMesh.averageEdgeLength(), read again after the hole filling
AverageEdgeLength(v) == v.avgAfter

\* repairMesh, lines 107-144: the mesh has average edge length avg1 when its holes
\* are measured and avg2 once the small ones are filled
MeasureEdges(avg1, avg2) ==
  /\ vox.pc = "requested"
  /\ vox' = [pc |-> "filled", tier |-> vox.tier, sent |-> vox.sent,
             voxelMultiplier |-> DefaultMultiplier(vox.sent),
             avgBefore |-> Num(avg1), avgAfter |-> Num(avg2)]
  /\ UNCHANGED <<workerVars, exportVars, calls, native, lastEdit, params, editHistory, edits, gear, stl>>

\* lines 153-168: voxelSize = avgEdgeLength * voxelMultiplier; rebuildSettings1
ConfigurePass1 ==
  /\ vox.pc = "filled"
  /\ LET voxelSize == RMul(AverageEdgeLength(vox), vox.voxelMultiplier)
     IN vox' = [pc |-> "pass1", tier |-> vox.tier, avgAfter |-> vox.avgAfter,
                voxelSize |-> voxelSize, voxelSize1 |-> voxelSize]
  /\ UNCHANGED <<workerVars, exportVars, calls, native, lastEdit, params, editHistory, edits, gear, stl>>

\* lines 205-213: rebuildSettings2.voxelSize = voxelSize
ConfigurePass2 ==
  /\ vox.pc = "pass1"
  /\ vox' = [pc |-> "pass2", tier |-> vox.tier, avgAfter |-> vox.avgAfter,
             voxelSize1 |-> vox.voxelSize1, voxelSize2 |-> vox.voxelSize]
  /\ UNCHANGED <<workerVars, exportVars, calls, native, lastEdit, params, editHistory, edits, gear, stl>>

VoxelNext ==
  \/ \E q \in VoxelQualities \cup {"undefined"} : SelectVoxelQuality(q)
  \/ PostVoxelMultiplier
  \/ \E avg1, avg2 \in 1..MaxEdge : MeasureEdges(avg1, avg2)
  \/ ConfigurePass1
  \/ ConfigurePass2

VoxelSpec == Init /\ [][VoxelNext]_vars

\* the multiplier the specification gives a tier, in thousandths
TierThousandths(q) ==
  CASE q = "low" -> 100 [] q = "medium" -> 75 [] q \in {"ultra", "undefined"} -> 50

\* C12: the multiplier sent with the request is the one of the selected tier (low
\* 0.10, medium 0.075, ultra 0.05, ultra when none is passed); the voxel size of
\* pass 1 is that multiplier times the average edge length measured after the hole
\* filling, and pass 2 uses the same voxel size.
C12_VoxelSizeOfTier ==
  /\ vox.pc = "requested" => vox.sent = Rat(TierThousandths(vox.tier), 1000)
  /\ vox.pc \in {"pass1", "pass2"} =>
       /\ vox.voxelSize1[1] * 1000 * vox.avgAfter[2]
            = TierThousandths(vox.tier) * vox.avgAfter[1] * vox.voxelSize1[2]
  /\ vox.pc = "pass2" => vox.voxelSize2 = vox.voxelSize1

C12_Witness ==
  /\ vox.pc = "pass2"
  /\ vox.tier = "medium"
  /\ vox.avgAfter = Num(4)
  /\ vox.voxelSize2 = Rat(3, 10)

\* ------------------------------------------------------------------ binary STL
MaxTriangles == 4
MaxVerts == 3

\* a byte of the buffer: <<kind, value, triangle>>; a byte of a float is named by
\* the float it belongs to (value 0..11: nx ny nz v0x .. v2z) and its triangle
ZeroByte == <<"u8", 0, 0>>
U8(n) == <<"u8", n % 256, 0>>
Float32Bytes(field, i) == [k \in 1..4 |-> <<"f32", field, i>>]
\* view.setUint32(_, n, true): least significant byte first
Uint32LE(n) == <<U8(n), U8(n \div 256), U8(n \div 65536), U8(n \div 16777216)>>
\* view.setUint16(_, n, true)
Uint16LE(n) == <<U8(n), U8(n \div 256)>>

\* the bytes of the header text (60 characters) that are written: Math.min(80, length)
HeaderLength == 60
HeaderBytes == [k \in 1..(IF HeaderLength < 80 THEN HeaderLength ELSE 80) |-> <<"hdr", k, 0>>]

\* DataView writes at byte offset `offset` (0-based); a write past the end throws
InRange(buf, offset, bytes) == offset >= 0 /\ offset + Len(bytes) <= Len(buf)
SetBytes(buf, offset, bytes) ==
  [k \in 1..Len(buf) |->
     IF k > offset /\ k <= offset + Len(bytes) THEN bytes[k - offset] ELSE buf[k]]

\* a buffer with no room for the triangle count
BufferSize_noCount(triangleCount) == 80 + triangleCount * 50

\* line 34: bufferSize = 80 + 4 + triangleCount * 50
BufferSize(triangleCount) == 80 + 4 + triangleCount * 50

\* extractMeshData, lines 62-74: indices = new Uint32Array(triangleCount * 3),
\* filled triangle by triangle with vertex ids of the final mesh
ExtractMeshData(vertCount, triangleCount) ==
  /\ stl.pc = "idle"
  /\ stl' = [pc |-> "extracted", meshTriangles |-> triangleCount,
             vertices |-> vertCount * 3,
             indices |-> [k \in 1..(triangleCount * 3) |-> (k - 1) % vertCount]]
  /\ UNCHANGED <<workerVars, exportVars, calls, native, lastEdit, params, editHistory, edits, gear, vox>>

\* createBinarySTL, lines 23-46: the buffer, the header, the triangle count
AllocateSTL ==
  /\ stl.pc = "extracted"
  /\ LET triangleCount == Len(stl.indices) \div 3
         zeros == [k \in 1..BufferSize(triangleCount) |-> ZeroByte]
         withHeader == SetBytes(zeros, 0, HeaderBytes)
     IN stl' = IF InRange(withHeader, 80, Uint32LE(triangleCount))
               THEN [pc |-> "records", meshTriangles |-> stl.meshTriangles,
                     indices |-> stl.indices, triangleCount |-> triangleCount,
                     buffer |-> SetBytes(withHeader, 80, Uint32LE(triangleCount)),
                     offset |-> 84, i |-> 0, field |-> 0]
               ELSE [pc |-> "RangeError", meshTriangles |-> stl.meshTriangles]
  /\ UNCHANGED <<workerVars, exportVars, calls, native, lastEdit, params, editHistory, edits, gear, vox>>

\* lines 85-103: one group of three setFloat32 calls (the normal, then a vertex)
\* and offset += 12
WriteVector ==
  /\ stl.pc = "records"
  /\ stl.i < stl.triangleCount
  /\ stl.field < 4
  /\ LET bytes == Float32Bytes(3 * stl.field, stl.i) \o Float32Bytes(3 * stl.field + 1, stl.i)
                    \o Float32Bytes(3 * stl.field + 2, stl.i)
     IN stl' = IF InRange(stl.buffer, stl.offset, bytes)
               THEN [stl EXCEPT !.buffer = SetBytes(@, stl.offset, bytes),
                                !.offset = @ + 12, !.field = @ + 1]
               ELSE [pc |-> "RangeError", meshTriangles |-> stl.meshTriangles]
  /\ UNCHANGED <<workerVars, exportVars, calls, native, lastEdit, params, editHistory, edits, gear, vox>>

\* lines 105-106: view.setUint16(offset, 0, true); offset += 2; next triangle
WriteAttribute ==
  /\ stl.pc = "records"
  /\ stl.i < stl.triangleCount
  /\ stl.field = 4
  /\ stl' = IF InRange(stl.buffer, stl.offset, Uint16LE(0))
            THEN [stl EXCEPT !.buffer = SetBytes(@, stl.offset, Uint16LE(0)),
                             !.offset = @ + 2, !.field = 0, !.i = @ + 1]
            ELSE [pc |-> "RangeError", meshTriangles |-> stl.meshTriangles]
  /\ UNCHANGED <<workerVars, exportVars, calls, native, lastEdit, params, editHistory, edits, gear, vox>>

\* line 109: return buffer
ReturnSTL ==
  /\ stl.pc = "records"
  /\ stl.i = stl.triangleCount
  /\ stl' = [stl EXCEPT !.pc = "returned"]
  /\ UNCHANGED <<workerVars, exportVars, calls, native, lastEdit, params, editHistory, edits, gear, vox>>

StlNext ==
  \/ \E vertCount \in 1..MaxVerts, triangleCount \in 0..MaxTriangles :
       ExtractMeshData(vertCount, triangleCount)
  \/ AllocateSTL
  \/ WriteVector
  \/ WriteAttribute
  \/ ReturnSTL

StlSpec == Init /\ [][StlNext]_vars

\* the unsigned integer whose little-endian bytes start at byte `at` (0-based)
ReadUint32LE(buf, at) ==
  buf[at + 1][2] + 256 * buf[at + 2][2] + 65536 * buf[at + 3][2] + 16777216 * buf[at + 4][2]

\* C13: the indices of a repaired mesh are three per triangle, writing the binary
\* STL never fails, and the returned buffer has 84 + 50 * triangleCount bytes, the
\* write offset at its end, the triangle count little-endian at byte 80 and two
\* zero attribute bytes at the end of each 50-byte record.
C13_BinarySTLSize ==
  /\ stl.pc # "RangeError"
  /\ stl.pc \in {"extracted", "records", "returned"} => Len(stl.indices) = stl.meshTriangles * 3
  /\ stl.pc = "returned" =>
       /\ Len(stl.buffer) = 84 + 50 * stl.meshTriangles
       /\ stl.offset = Len(stl.buffer)
       /\ \A k \in 81..84 : stl.buffer[k][1] = "u8"
       /\ ReadUint32LE(stl.buffer, 80) = stl.meshTriangles
       /\ \A t \in 0..(stl.meshTriangles - 1) :
            /\ \A k \in 1..48 : stl.buffer[84 + 50 * t + k] = <<"f32", (k - 1) \div 4, t>>
            /\ stl.buffer[84 + 50 * t + 49] = ZeroByte
            /\ stl.buffer[84 + 50 * t + 50] = ZeroByte

C13_Witness ==
  /\ stl.pc = "returned"
  /\ stl.meshTriangles = 3
  /\ Len(stl.buffer) = 234
  /\ stl.buffer[81] = U8(3)

\* ------------------------------------------------------------------ gear dimensions
MaxBuilds == 2

\* Math.ceil
RCeil(a) == -((-a[1]) \div a[2])

\* Math.cos((deg * Math.PI) / 180) to three decimals, for the pressure angles used
CosDeg(deg) ==
  CASE deg = Rat(29, 2) -> Rat(968, 1000)
    [] deg = Num(20) -> Rat(940, 1000)
    [] deg = Num(30) -> Rat(866, 1000)

\* an addendum that ignores the profile shift
Addendum_unshifted(p) == p.module

\* line 422: addendum = m * (1 + profileShift)
Addendum(p) == RMul(p.module, RAdd(Num(1), p.profileShift))

\* line 423: dedendum = m * (1.25 + clearance - profileShift)
Dedendum(p) == RMul(p.module, RSub(RAdd(Rat(125, 100), p.clearance), p.profileShift))

\* calculateGearGeometryValues
CalculateGearGeometryValues(p) ==
  LET pitchRadius == RDiv(RMul(p.module, p.teethCount), Num(2))
      baseRadius == RMul(pitchRadius, CosDeg(p.pressureAngle))
      outerRadius == RAdd(pitchRadius, Addendum(p))
      rootRadius == RMax(RSub(pitchRadius, Dedendum(p)), RMul(baseRadius, Rat(95, 100)))
  IN [pitchRadius |-> pitchRadius, baseRadius |-> baseRadius, outerRadius |-> outerRadius,
      rootRadius |-> rootRadius, boreRadius |-> RDiv(p.boreDiameter, Num(2)),
      pitchDiameter |-> RMul(p.module, p.teethCount),
      baseDiameter |-> RMul(baseRadius, Num(2)),
      outerDiameter |-> RMul(outerRadius, Num(2)),
      rootDiameter |-> RMul(rootRadius, Num(2)),
      addendum |-> Addendum(p), dedendum |-> Dedendum(p),
      toothHeight |-> RAdd(Addendum(p), Dedendum(p)), thickness |-> p.thickness]

\* parameter sets inside the ranges of GEAR_PARAMETER_CONFIGS, ends included; the
\* bore is given as a multiple of the root radius of the set
BoreFactors == {Num(0), Rat(1, 2), Rat(19, 10), Rat(191, 100)}

BaseParams ==
  { [DEFAULT_GEAR_PARAMS EXCEPT !.teethCount = t, !.module = m, !.pressureAngle = a,
                                !.clearance = c, !.profileShift = x, !.holeType = ht,
                                !.helixAngle = hx] :
      t \in {Num(4), Num(32)}, m \in {Rat(3, 10), Num(2), Num(25)},
      a \in {Rat(29, 2), Num(20), Num(30)}, c \in {Rat(5, 100), Rat(1, 4), Num(1)},
      x \in {Num(-1), Num(0), Num(1)}, ht \in {"none", "round", "keyed"},
      hx \in {Num(0), Num(15)} }

WithBore(p, f) ==
  LET geo == CalculateGearGeometryValues(p)
  IN [p EXCEPT !.boreDiameter = RMul(f, geo.rootRadius),
               !.rootDiameter = geo.rootDiameter, !.outerDiameter = geo.outerDiameter]

\* what the geometry libraries do with one parameter set: whether the tip of a
\* tooth is wider than 0.001 rad (line 161), and the step that throws, if any
Steps == {"shape", "extrude", "subtractHole", "subtractKey"}
Libs == [tipLand : BOOLEAN, throwsAt : Steps \cup {"none"}]

\* the parameter set under study
SetParameters(p, f, lib) ==
  /\ gear.pc = "idle"
  /\ gear' = [pc |-> "set", p |-> WithBore(p, f), given |-> WithBore(p, f), lib |-> lib,
              builds |-> <<>>]
  /\ UNCHANGED <<workerVars, exportVars, calls, native, lastEdit, params, editHistory, edits, vox, stl>>

\* calculateGearGeometryValues(params)
Calculate ==
  /\ gear.pc = "set"
  /\ gear' = [pc |-> "calculated", p |-> gear.p, given |-> gear.given, lib |-> gear.lib,
              builds |-> <<>>, geo |-> CalculateGearGeometryValues(gear.p)]
  /\ UNCHANGED <<workerVars, exportVars, calls, native, lastEdit, params, editHistory, edits, vox, stl>>
\* ------------------------------------------------------------------ geometry build
\* createGearShape, lines 93-187: the points pushed for one tooth (root arc 0..8,
\* left flank 1..16, tip land 1..3 when it is wide enough, right flank 16..1)
PointsPerTooth(lib) == 9 + 16 + (IF lib.tipLand THEN 3 ELSE 0) + 16

PointCount(p, lib) == p.teethCount[1] * PointsPerTooth(lib)

\* extrusion steps that grow with every build made
ExtrudeSteps_counting(p) ==
  (IF p.helixAngle # Num(0) THEN RCeil(RMul(p.thickness, Num(2))) ELSE 1) + Len(gear.builds)

\* line 338: steps: params.helixAngle !== 0 ? Math.ceil(params.thickness * 2) : 1
ExtrudeSteps(p) == IF p.helixAngle # Num(0) THEN RCeil(RMul(p.thickness, Num(2))) ELSE 1

\* lines 366-370: the root radius the bore is compared with
BoreRootRadius(p) ==
  LET pitchRadius == RDiv(RMul(p.module, p.teethCount), Num(2))
  IN RMax(RSub(pitchRadius, RMul(RAdd(Rat(125, 100), p.clearance), p.module)),
          RMul(p.module, Rat(5, 10)))

\* a margin test that lets the bore reach 1.9 * rootRadius
SubtractsHole_inclusive(p) ==
  /\ p.holeType # "none" /\ RLt(Num(0), p.boreDiameter)
  /\ RLe(p.boreDiameter, RMul(BoreRootRadius(p), Rat(19, 10)))

\* lines 365 and 372: params.holeType !== "none" && params.boreDiameter > 0, and
\* params.boreDiameter < rootRadius * 1.9
SubtractsHole(p) ==
  /\ p.holeType # "none" /\ RLt(Num(0), p.boreDiameter)
  /\ RLt(p.boreDiameter, RMul(BoreRootRadius(p), Rat(19, 10)))

\* the construction steps generateGearGeometry goes through for p, in order
StepsOf(p) ==
  <<"shape", "extrude">>
    \o (IF SubtractsHole(p) THEN <<"subtractHole">> ELSE <<>>)
    \o (IF SubtractsHole(p) /\ p.holeType = "keyed" THEN <<"subtractKey">> ELSE <<>>)

\* its steps up to and including the one that throws
RECURSIVE Upto(_, _)
Upto(steps, stop) ==
  IF steps = <<>> THEN <<>>
  ELSE IF Head(steps) = stop THEN <<stop>> ELSE <<Head(steps)>> \o Upto(Tail(steps), stop)

Threw(p, lib) == \E k \in 1..Len(StepsOf(p)) : StepsOf(p)[k] = lib.throwsAt

\* generateGearGeometry: the geometry returned, or the step that threw
GenerateGearGeometry(p, lib) ==
  IF Threw(p, lib)
  THEN [threw |-> lib.throwsAt, trace |-> Upto(StepsOf(p), lib.throwsAt)]
  ELSE [threw |-> "none", trace |-> StepsOf(p),
        geometry |-> [kind |-> "gear", pointCount |-> PointCount(p, lib),
                      depth |-> p.thickness, steps |-> ExtrudeSteps(p),
                      twist |-> p.helixAngle,
                      holeCut |-> SubtractsHole(p),
                      keyCut |-> SubtractsHole(p) /\ p.holeType = "keyed"]]

\* a fallback as wide as the pitch diameter
FallbackGeometry_wide(p) ==
  [kind |-> "cylinder", radiusTop |-> RMul(p.module, p.teethCount),
   radiusBottom |-> RMul(p.module, p.teethCount), height |-> p.thickness]

\* GearMesh, lines 426-431: new THREE.CylinderGeometry(m * z / 2, m * z / 2, thickness, 64)
FallbackGeometry(p) ==
  [kind |-> "cylinder", radiusTop |-> RDiv(RMul(p.module, p.teethCount), Num(2)),
   radiusBottom |-> RDiv(RMul(p.module, p.teethCount), Num(2)), height |-> p.thickness]

\* GearMesh, lines 420-433: the geometry useMemo
GearMeshGeometry(p, lib) ==
  LET r == GenerateGearGeometry(p, lib)
  IN [threw |-> r.threw, trace |-> r.trace,
      geometry |-> IF r.threw = "none" THEN r.geometry ELSE FallbackGeometry(p)]

\* one build of the parameter set
Build ==
  /\ gear.pc \in {"calculated", "built"}
  /\ Len(gear.builds) < MaxBuilds
  /\ gear' = [gear EXCEPT !.pc = "built",
                          !.builds = Append(@, GearMeshGeometry(gear.p, gear.lib))]
  /\ UNCHANGED <<workerVars, exportVars, calls, native, lastEdit, params, editHistory, edits, vox, stl>>

GearNext ==
  \/ /\ gear.pc = "idle"
     /\ \E p \in BaseParams, f \in BoreFactors, lib \in Libs : SetParameters(p, f, lib)
  \/ Calculate
  \/ Build

GearSpec == Init /\ [][GearNext]_vars

Calculated == gear.pc \in {"calculated", "built"}

\* C14: the derived dimensions are pitchDiameter = module * teeth, outerDiameter =
\* module * (teeth + 2 + 2 * profileShift), rootDiameter = 2 * max(pitchRadius -
\* dedendum, 0.95 * baseRadius), addendum = module * (1 + profileShift) and
\* dedendum = module * (1.25 + clearance - profileShift).
C14_DerivedDiameters ==
  Calculated =>
    LET p == gear.p
        g == gear.geo
        two == Num(2)
    IN /\ g.pitchDiameter = RMul(p.module, p.teethCount)
       /\ g.outerDiameter =
            RMul(p.module, RAdd(RAdd(p.teethCount, two), RMul(two, p.profileShift)))
       /\ g.addendum = RAdd(p.module, RMul(p.module, p.profileShift))
       /\ g.dedendum = RSub(RAdd(RMul(p.module, Rat(5, 4)), RMul(p.module, p.clearance)),
                            RMul(p.module, p.profileShift))
       /\ g.rootDiameter =
            RMul(two, RMax(RSub(RDiv(g.pitchDiameter, two), g.dedendum),
                           RMul(Rat(19, 20), g.baseRadius)))
       /\ g.baseRadius = RMul(RDiv(g.pitchDiameter, two), CosDeg(p.pressureAngle))

C14_Witness ==
  /\ Calculated
  /\ gear.p.profileShift = Num(1) /\ gear.p.module = Rat(3, 10) /\ gear.p.teethCount = Num(4)
  /\ gear.geo.outerDiameter = Rat(24, 10)

\* C15: inside the valid ranges the derived radii satisfy
\* outerRadius > pitchRadius > rootRadius > 0.
C15_RadiiOrdered ==
  Calculated =>
    /\ RLt(gear.geo.pitchRadius, gear.geo.outerRadius)
    /\ RLt(gear.geo.rootRadius, gear.geo.pitchRadius)
    /\ RLt(Num(0), gear.geo.rootRadius)

\* C16: with a hole type other than none, a bore of exactly 1.9 * rootRadius is
\* subtracted and a bore of 1.91 * rootRadius is not.
C16_BoreBoundary ==
  \A k \in 1..(IF gear.pc = "built" THEN Len(gear.builds) ELSE 0) :
    LET b == gear.builds[k]
        rootRadius == gear.geo.rootRadius
    IN (gear.p.holeType # "none" /\ b.threw = "none") =>
         /\ gear.p.boreDiameter = RMul(Rat(19, 10), rootRadius) => b.geometry.holeCut
         /\ gear.p.boreDiameter = RMul(Rat(191, 100), rootRadius) => ~b.geometry.holeCut

\* C17: a build in which a step throws yields a plain cylinder of radius
\* module * teeth / 2 and of the height of the thickness.
C17_FallbackCylinder ==
  \A k \in 1..(IF gear.pc = "built" THEN Len(gear.builds) ELSE 0) :
    LET b == gear.builds[k]
        radius == RDiv(RMul(gear.p.module, gear.p.teethCount), Num(2))
    IN /\ b.threw # "none" <=> b.geometry.kind = "cylinder"
       /\ b.threw # "none" =>
            /\ b.geometry.radiusTop = radius /\ b.geometry.radiusBottom = radius
            /\ b.geometry.height = gear.p.thickness

C17_Witness ==
  /\ gear.pc = "built"
  /\ gear.builds[1].threw = "subtractKey"
  /\ gear.builds[1].trace = <<"shape", "extrude", "subtractHole", "subtractKey">>
  /\ gear.builds[1].geometry.kind = "cylinder"

MaxEdits == 3

HISTORY_LENGTH == 6
INTERDEPENDENT_PARAMS == <<"module", "teethCount", "outerDiameter">>

IsInterdependent(key) == \E k \in 1..Len(INTERDEPENDENT_PARAMS) : INTERDEPENDENT_PARAMS[k] = key

Edited(history, key) == \E k \in 1..Len(history) : history[k] = key

\* array.slice(-n)
LastN(seq, n) == IF Len(seq) <= n THEN seq ELSE SubSeq(seq, Len(seq) - n + 1, Len(seq))

\* lines 61-76: the edited key moves to the end of the history
NewHistory(history, key) ==
  IF IsInterdependent(key)
  THEN LastN(Append(SelectSeq(history, LAMBDA e : e # key), key), HISTORY_LENGTH)
  ELSE history

\* the choice falling on the parameter edited last before this edit
GetOldestParam_latest(currentHistory, excludeParam) ==
  LET relevantHistory == SelectSeq(currentHistory, IsInterdependent)
      uneditedParams == SelectSeq(INTERDEPENDENT_PARAMS,
                                  LAMBDA q : ~Edited(relevantHistory, q) /\ q # excludeParam)
      sortedByTime == SelectSeq(relevantHistory, LAMBDA e : e # excludeParam)
  IN IF Len(uneditedParams) > 0 THEN uneditedParams[1]
     ELSE IF Len(sortedByTime) > 0 THEN sortedByTime[Len(sortedByTime)] ELSE "module"

\* getOldestParam: the first interdependent parameter never edited, else the one
\* edited longest ago, the edited key excluded
GetOldestParam(currentHistory, excludeParam) ==
  LET relevantHistory == SelectSeq(currentHistory, IsInterdependent)
      uneditedParams == SelectSeq(INTERDEPENDENT_PARAMS,
                                  LAMBDA q : ~Edited(relevantHistory, q) /\ q # excludeParam)
      sortedByTime == SelectSeq(relevantHistory, LAMBDA e : e # excludeParam)
  IN IF Len(uneditedParams) > 0 THEN uneditedParams[1]
     ELSE IF Len(sortedByTime) > 0 THEN sortedByTime[1] ELSE "module"

\* calculateModule: <<>> stands for null
CalculateModule(outerDiameter, teethCount, profileShift) ==
  LET denominator == RAdd(RAdd(teethCount, Num(2)), RMul(Num(2), profileShift))
  IN IF RLt(Num(0), denominator) /\ RLt(Num(0), outerDiameter)
        /\ RLe(Rat(3, 10), RDiv(outerDiameter, denominator))
        /\ RLe(RDiv(outerDiameter, denominator), Num(25))
     THEN RDiv(outerDiameter, denominator)
     ELSE <<>>

\* calculateTeethCount
CalculateTeethCount(outerDiameter, module, profileShift) ==
  LET calculatedTeeth ==
        RSub(RSub(RDiv(outerDiameter, module), Num(2)), RMul(Num(2), profileShift))
  IN IF RLt(Num(0), module) /\ RLt(Num(0), outerDiameter)
        /\ RLe(Num(4), calculatedTeeth) /\ RLe(calculatedTeeth, Num(200))
     THEN RRound(calculatedTeeth)
     ELSE <<>>

CalculateOuterDiameter(tempParams) == CalculateGearGeometryValues(tempParams).outerDiameter
CalculateRootDiameter(tempParams) == CalculateGearGeometryValues(tempParams).rootDiameter

\* lines 127-157: the oldest interdependent parameter is recomputed from the others
Interdependent(newParams, oldestParam) ==
  LET newModule == CalculateModule(newParams.outerDiameter, newParams.teethCount,
                                   newParams.profileShift)
      newTeethCount == CalculateTeethCount(newParams.outerDiameter, newParams.module,
                                           newParams.profileShift)
      q == CASE oldestParam = "module" ->
                  IF newModule # <<>> THEN [newParams EXCEPT !.module = newModule]
                  ELSE newParams
             [] oldestParam = "teethCount" ->
                  IF newTeethCount # <<>> THEN [newParams EXCEPT !.teethCount = newTeethCount]
                  ELSE newParams
             [] oldestParam = "outerDiameter" ->
                  [newParams EXCEPT !.outerDiameter = CalculateOuterDiameter(newParams)]
  IN [q EXCEPT !.rootDiameter = CalculateRootDiameter(q)]

\* lines 158-168: pressureAngle, clearance and profileShift
Dependent(newParams, key) ==
  LET q == IF key = "profileShift"
           THEN [newParams EXCEPT !.outerDiameter = CalculateOuterDiameter(newParams)]
           ELSE newParams
  IN [q EXCEPT !.rootDiameter = CalculateRootDiameter(q)]

\* a clamp to the fixed range of the bore input, 0 to 100
ClampBore_static(newParams) ==
  IF RLt(newParams.boreDiameter, Num(0)) THEN [newParams EXCEPT !.boreDiameter = Num(0)]
  ELSE IF RLt(Num(100), newParams.boreDiameter)
       THEN [newParams EXCEPT !.boreDiameter = Num(100)]
       ELSE newParams

\* lines 170-175: the bore is kept inside [0, 0.75 * rootDiameter]
ClampBore(newParams) ==
  LET maxBoreDiameter == RMul(newParams.rootDiameter, Rat(75, 100))
  IN IF RLt(newParams.boreDiameter, Num(0)) THEN [newParams EXCEPT !.boreDiameter = Num(0)]
     ELSE IF RLt(maxBoreDiameter, newParams.boreDiameter)
          THEN [newParams EXCEPT !.boreDiameter = maxBoreDiameter]
          ELSE newParams

\* the values an input can deliver for a key: ParameterInput clamps what is typed
\* to [min, max] of the key's configuration
EditValues(key) ==
  CASE key = "module" -> {Rat(3, 10), Num(2), Num(25)}
    [] key = "teethCount" -> {Num(4), Num(32), Num(200)}
    [] key = "outerDiameter" -> {Num(5), Num(69), Num(500)}
    [] key = "profileShift" -> {Num(-1), Num(0), Rat(1, 2)}
    [] key = "boreDiameter" -> {Num(0), Num(8), Num(100)}

EditKeys == {"module", "teethCount", "outerDiameter", "profileShift", "boreDiameter"}

\* handleParamChange(key, value)
HandleParamChange(key, value) ==
  /\ edits < MaxEdits
  /\ LET newHistory == NewHistory(editHistory, key)
         newParams == [params EXCEPT ![key] = value]
     IN /\ editHistory' = newHistory
        /\ params' = ClampBore(
             IF IsInterdependent(key)
             THEN Interdependent(newParams, GetOldestParam(newHistory, key))
             ELSE IF key \in {"pressureAngle", "clearance", "profileShift"}
                  THEN Dependent(newParams, key)
                  ELSE newParams)
  /\ edits' = edits + 1
  /\ lastEdit' = [pc |-> "changed", key |-> key, value |-> value,
                  oldestParam |-> IF IsInterdependent(key)
                                  THEN GetOldestParam(NewHistory(editHistory, key), key)
                                  ELSE "none"]
  /\ UNCHANGED <<workerVars, exportVars, calls, native, gear, vox, stl>>

EditNext == \E key \in EditKeys : \E value \in EditValues(key) : HandleParamChange(key, value)

EditSpec == Init /\ [][EditNext]_vars

\* C19: after edits of module, teethCount, outerDiameter and profileShift the
\* stored outerDiameter is module * (teethCount + 2 + 2 * profileShift) and the
\* stored rootDiameter is the rootDiameter derived from the stored parameters.
C19_StoredDiametersDerived ==
  edits > 0 =>
    /\ params.outerDiameter =
         RMul(params.module,
              RAdd(RAdd(params.teethCount, Num(2)), RMul(Num(2), params.profileShift)))
    /\ params.rootDiameter = CalculateGearGeometryValues(params).rootDiameter
\* ------------------------------------------------------------------ stage order
\* the position of a message in the stage sequence of the specification
StageIndex(m) ==
  CASE m.type = "complete" -> 9
    [] m.type = "error" -> 10
    [] m.stage = "Initializing MeshLib..." -> 1
    [] m.stage = "Converting geometry..." -> 2
    [] m.stage = "Finding holes..." -> 3
    [] m.stage = "Filling holes..." -> 4
    [] m.stage = "Preparing rebuild..." -> 5
    [] m.stage = "Making your model watertight" -> 6
    [] m.stage = "Fixing self-intersections and optimizng mesh" -> 7
    [] m.stage = "Preparing for download" -> 8

\* stages that may post nothing: hole filling, and a pass whose engine run reports
\* no progress
OptionalStages == {4, 6, 7}

\* C20: the messages of one repair follow the stage order Initializing, Converting,
\* hole detection, [hole filling], pass-1 preparation, pass-1 callbacks, pass-2
\* callbacks, extraction, complete: the first message is Initializing, no stage
\* other than an optional one is skipped, none is entered again once left, and an
\* `error` may come after any stage.
C20_StageOrder ==
  \A r \in Requests :
    LET ms == OfRequest(r)
        idx(k) == StageIndex(ms[k])
    IN /\ Len(ms) > 0 => idx(1) = 1
       /\ \A k \in 1..(Len(ms) - 1) :
            \/ idx(k + 1) = 10
            \/ /\ idx(k) < idx(k + 1)
               /\ \A st \in (idx(k) + 1)..(idx(k + 1) - 1) : st \in OptionalStages
            \/ idx(k) = idx(k + 1) /\ idx(k) \in {6, 7}

C20_Witness ==
  \E r \in Requests :
    LET ms == OfRequest(r)
    IN /\ Len(ms) = 9
       /\ [k \in 1..9 |-> StageIndex(ms[k])] = <<1, 2, 3, 4, 5, 6, 7, 8, 9>>

\* ------------------------------------------------------------------ progress callbacks
MaxCalls == 2

\* the fractions the engine may pass to a progress callback, in tenths: 0, 0.1 .. 1.0
Tenths == 0..10

\* progressCallback1, lines 171-186: the engine calls it with fraction p
ProgressCallback1(p) ==
  /\ Len(calls) < MaxCalls
  /\ \A k \in 1..Len(calls) : calls[k].pass = 1
  /\ calls' = Append(calls, [pass |-> 1, progress |-> p, percent |-> Pass1Percent(p)])
  /\ UNCHANGED <<workerVars, exportVars, native, lastEdit, params, editHistory, edits, gear,
                 vox, stl>>

\* progressCallback2, lines 216-224
ProgressCallback2(p) ==
  /\ Len(calls) < MaxCalls
  /\ calls' = Append(calls, [pass |-> 2, progress |-> p, percent |-> Pass2Percent(p)])
  /\ UNCHANGED <<workerVars, exportVars, native, lastEdit, params, editHistory, edits, gear,
                 vox, stl>>

ProgressNext == \E p \in Tenths : ProgressCallback1(p) \/ ProgressCallback2(p)

ProgressSpec == Init /\ [][ProgressNext]_vars

\* C21: in pass 1 a fraction below 0.5 gives a percentage in 0..40 and a fraction of
\* 0.5 or more one in 40..50, with 0.5 giving 40 and 1.0 giving 50; in pass 2 every
\* fraction gives a percentage in 50..95.
C21_ProgressBands ==
  \A k \in 1..Len(calls) :
    LET c == calls[k] IN
    /\ c.pass = 1 /\ c.progress < 5 => 0 <= c.percent /\ c.percent <= 40 * Scale
    /\ c.pass = 1 /\ c.progress >= 5 => 40 * Scale <= c.percent /\ c.percent <= 50 * Scale
    /\ c.pass = 1 /\ c.progress = 5 => c.percent = 40 * Scale
    /\ c.pass = 1 /\ c.progress = 10 => c.percent = 50 * Scale
    /\ c.pass = 2 => 50 * Scale <= c.percent /\ c.percent <= 95 * Scale

\* ------------------------------------------------------------------ native objects
\* what one repairMesh invocation does to the objects of the mesh engine, in order:
\* <<"new", o>> o is created, <<"use", o>> o is read or passed to an engine call,
\* <<"delete", o>> o.delete(), <<"copy", d>> d was copied into JavaScript buffers
New(o) == <<"new", o>>
Use(o) == <<"use", o>>
Delete(o) == <<"delete", o>>
\* the objects, by the names repairMesh and extractMeshData give them
originalMesh == <<"originalMesh", 0>>
holeEdges == <<"holeEdges", 0>>
edgeVec == <<"edgeVec", 0>>
fillParams == <<"fillParams", 0>>
rebuildSettings(n) == <<"rebuildSettings", n>>
progressCallback(n) == <<"progressCallback", n>>
meshPart(n) == <<"meshPart", n>>
rebuildResult(n) == <<"rebuildResult", n>>
pass1Mesh == <<"pass1Mesh", 0>>
finalMesh == <<"finalMesh", 0>>
VertId(i) == <<"vertId", i>>
meshData == <<"meshData", 0>>

nativeOthers ==
  <<workerVars, exportVars, calls, lastEdit, params, editHistory, edits, gear, vox, stl>>

\* line 92: initMeshLib() has returned the engine
EnterRepairMesh ==
  /\ native.pc = "idle"
  /\ native' = [pc |-> "convert", log |-> <<>>, holeCount |-> 0, smallHoleCount |-> 0,
                vertCount |-> 0, posted |-> "none"]
  /\ UNCHANGED nativeOthers

\* the step at native.pc runs to its end and leaves `log`
Goto(pc, log) == native' = [native EXCEPT !.pc = pc, !.log = log]

\* lines 257-262: a throw lands in the catch block, which posts `error`
CatchNative(log) == native' = [native EXCEPT !.pc = "done", !.log = log, !.posted = "error"]

\* line 99: createMeshLibMesh -> sdk.Mesh.fromTrianglesArray
CreateMeshLibMesh ==
  /\ native.pc = "convert"
  /\ \/ Goto("findHoles", native.log \o <<New(originalMesh)>>)
     \/ CatchNative(native.log)
  /\ UNCHANGED nativeOthers

\* lines 107-110: findHoleRepresentiveEdges, holeEdges.size()
FindHoles ==
  /\ native.pc = "findHoles"
  /\ \/ \E holeCount \in 0..MaxHoles :
          native' = [native EXCEPT !.pc = IF holeCount > 0 THEN "select" ELSE "prepare1",
                                   !.holeCount = holeCount,
                                   !.log = @ \o <<Use(originalMesh), New(holeEdges),
                                                  Use(holeEdges)>>]
     \/ CatchNative(native.log \o <<Use(originalMesh)>>)
  /\ UNCHANGED nativeOthers

\* lines 111-125: averageEdgeLength, new VectorEdgeId, the selection loop
SelectHoles ==
  /\ native.pc = "select"
  /\ LET log == native.log \o <<Use(originalMesh), New(edgeVec), Use(holeEdges),
                                Use(originalMesh)>>
     IN \/ \E smallHoleCount \in 0..native.holeCount :
             native' = [native EXCEPT !.pc = IF smallHoleCount > 0 THEN "fill" ELSE "releaseHoles",
                                      !.smallHoleCount = smallHoleCount,
                                      !.log = log \o (IF smallHoleCount > 0
                                                      THEN <<Use(edgeVec)>> ELSE <<>>)]
        \/ CatchNative(log)
  /\ UNCHANGED nativeOthers

\* lines 133-139: new FillHoleParams, getUniversalMetric, fillHoles, fillParams.delete()
FillSmallHoles ==
  /\ native.pc = "fill"
  /\ LET log == native.log \o <<New(fillParams), Use(originalMesh), Use(fillParams),
                                Use(originalMesh), Use(edgeVec), Use(fillParams)>>
     IN \/ Goto("releaseHoles", log \o <<Delete(fillParams)>>)
        \/ CatchNative(log)
  /\ UNCHANGED nativeOthers

\* lines 142-143
HoleReleases == <<edgeVec, holeEdges>>

ReleaseHoles ==
  /\ native.pc = "releaseHoles"
  /\ Goto("prepare1", native.log \o [k \in 1..Len(HoleReleases) |-> Delete(HoleReleases[k])])
  /\ UNCHANGED nativeOthers

\* lines 153-190 (n = 1) and 205-228 (n = 2): the settings, the progress callback and
\* the mesh part of a pass
PreparePass(n, mesh) ==
  <<New(rebuildSettings(n)), Use(rebuildSettings(n)),
    New(progressCallback(n)), Use(rebuildSettings(n)),
    Use(progressCallback(n)), Use(mesh), New(meshPart(n))>>

\* lines 191-197 and 229-235: rebuildMesh, hasError, error or value
RebuildPass(n, log, next, mesh) ==
  LET called == log \o <<Use(meshPart(n)), Use(rebuildSettings(n)),
                         Use(progressCallback(n))>>
      result == called \o <<New(rebuildResult(n)), Use(rebuildResult(n))>>
  IN \/ CatchNative(called)
     \/ CatchNative(result \o <<Use(rebuildResult(1))>>)
     \/ Goto(next, result \o <<Use(rebuildResult(n)), New(mesh)>>)

\* lines 153-197
Pass1 ==
  /\ native.pc = "prepare1"
  /\ RebuildPass(1, native.log \o <<Use(originalMesh)>> \o PreparePass(1, originalMesh),
                 "release1", pass1Mesh)
  /\ UNCHANGED nativeOthers

\* lines 199-202, with the pass-1 mesh released in place of the input mesh
Pass1Releases_pass1Mesh ==
  <<progressCallback(1), rebuildSettings(1), meshPart(1), pass1Mesh>>

\* lines 199-202
Pass1Releases ==
  <<progressCallback(1), rebuildSettings(1), meshPart(1), originalMesh>>

ReleasePass1 ==
  /\ native.pc = "release1"
  /\ Goto("prepare2", native.log \o [k \in 1..Len(Pass1Releases) |-> Delete(Pass1Releases[k])])
  /\ UNCHANGED nativeOthers

\* lines 205-235
Pass2Native ==
  /\ native.pc = "prepare2"
  /\ RebuildPass(2, native.log \o PreparePass(2, pass1Mesh), "extract", finalMesh)
  /\ UNCHANGED nativeOthers

\* extractMeshData, lines 50-60: one VertId per vertex
RECURSIVE VertexLoop(_)
VertexLoop(vertCount) ==
  IF vertCount = 0 THEN <<>>
  ELSE VertexLoop(vertCount - 1) \o <<New(VertId(vertCount - 1)), Use(VertId(vertCount - 1)),
                                      Use(finalMesh)>>

\* line 241: extractMeshData(finalMesh, sdk), which may throw part way
ExtractNative ==
  /\ native.pc = "extract"
  /\ \E vertCount \in 0..MaxVerts :
       LET points == native.log \o <<Use(finalMesh)>> \o VertexLoop(vertCount)
       IN \/ native' = [native EXCEPT !.pc = "release2", !.vertCount = vertCount,
                                      !.log = points \o <<Use(finalMesh),
                                                          <<"copy", meshData>>>>]
          \/ native' = [native EXCEPT !.pc = "done", !.vertCount = vertCount,
                                      !.log = points, !.posted = "error"]
  /\ UNCHANGED nativeOthers

\* lines 243-247
Pass2Releases ==
  <<progressCallback(2), rebuildSettings(2), meshPart(2), pass1Mesh,
    finalMesh>>

\* lines 243-256: the releases and the `complete` message
ReleaseAndComplete ==
  /\ native.pc = "release2"
  /\ native' = [native EXCEPT !.pc = "done", !.posted = "complete",
                              !.log = @ \o [k \in 1..Len(Pass2Releases) |->
                                              Delete(Pass2Releases[k])]]
  /\ UNCHANGED nativeOthers

NativeNext ==
  \/ EnterRepairMesh
  \/ CreateMeshLibMesh
  \/ FindHoles
  \/ SelectHoles
  \/ FillSmallHoles
  \/ ReleaseHoles
  \/ Pass1
  \/ ReleasePass1
  \/ Pass2Native
  \/ ExtractNative
  \/ ReleaseAndComplete

NativeSpec == Init /\ [][NativeNext]_vars

\* what a log says of an object
Log == IF native.pc = "idle" THEN <<>> ELSE native.log
CreatedIn(log) == {log[k][2] : k \in {j \in 1..Len(log) : log[j][1] = "new"}}
ReleasesOf(log, o) == Cardinality({k \in 1..Len(log) : log[k] = Delete(o)})
Posted(type) == native.pc = "done" /\ native.posted = type

\* C22: when the `error` message is posted every native object created so far has
\* been released.
C22_ErrorPathReleases ==
  Posted("error") => \A o \in CreatedIn(Log) : ReleasesOf(Log, o) >= 1

\* C23: when the `complete` message is posted every native object created (the
\* rebuild results and the vertex ids included, and the hole-edge collection also
\* when no hole was found) has been released exactly once.
C23_SuccessPathReleases ==
  Posted("complete") => \A o \in CreatedIn(Log) : ReleasesOf(Log, o) = 1

Before(log, e, i) == \E j \in 1..(i - 1) : log[j] = e

\* C28: an object is used and released only after it was created, is never used
\* after its release and never released twice; the input mesh is released only
\* after pass 1 has produced its mesh, the pass-1 mesh only after pass 2 has produced
\* the final mesh and the extraction has copied it out, and the final mesh only
\* after the extraction.
C28_NoUseAfterRelease ==
  \A i \in 1..Len(Log) :
    LET e == Log[i]
        o == Log[i][2]
    IN /\ e[1] \in {"use", "delete"} =>
            /\ Before(Log, New(o), i)
            /\ ~Before(Log, Delete(o), i)
       /\ e = Delete(originalMesh) => Before(Log, New(pass1Mesh), i)
       /\ e = Delete(pass1Mesh) =>
            Before(Log, New(finalMesh), i) /\ Before(Log, <<"copy", meshData>>, i)
       /\ e = Delete(finalMesh) => Before(Log, <<"copy", meshData>>, i)

C28_Witness ==
  /\ Posted("complete")
  /\ native.holeCount = 2 /\ native.smallHoleCount = 1
  /\ native.vertCount = 2
  /\ ReleasesOf(Log, originalMesh) = 1 /\ ReleasesOf(Log, pass1Mesh) = 1
  /\ ReleasesOf(Log, finalMesh) = 1 /\ ReleasesOf(Log, fillParams) = 1

\* ------------------------------------------------------------------ bore subtraction
Builds == IF gear.pc = "built" THEN gear.builds ELSE <<>>

\* the position of a step in the steps a build went through (0: not among them)
StepAt(b, step) ==
  IF \E k \in 1..Len(b.trace) : b.trace[k] = step
  THEN CHOOSE k \in 1..Len(b.trace) : b.trace[k] = step
  ELSE 0

C25_SingleRootRadius ==
  (Len(Builds) > 0 /\ gear.p.holeType # "none" /\ RLt(Num(0), gear.p.boreDiameter)) =>
    BoreRootRadius(gear.p) = gear.geo.rootRadius

\* ------------------------------------------------------------------ failure and cancellation
Rejects(e) == ex[e].pc = "pending" /\ ex'[e].pc = "rejected"

\* C26: the step in which a repair export fails leaves exportResult null, isComplete
\* and isProcessing false, the modal closed and progress at stage "" and 0, so that
\* download() has nothing to download.
C26_FailureDiscardsState ==
  [][(\E e \in Requests : Rejects(e)) =>
       /\ exportResult' = 0
       /\ ~isComplete'
       /\ ~isProcessing'
       /\ ~showModal'
       /\ progress' = [stage |-> "", progress |-> 0]]_vars

C26_Witness ==
  \E e \in Requests :
    /\ ex[e].pc = "rejected" /\ ex[e].cause = "error"
    /\ exportResult = 0 /\ ~isComplete /\ ~isProcessing /\ ~showModal
    /\ progress = NoProgress

\* C27: an event of an export (a progress, complete or error message of its worker,
\* or its worker's crash) handled after cancel() was called during its repair
\* changes none of progress, isComplete, isProcessing and exportResult.
C27_CancelIsolation ==
  [][\A e \in Requests :
       (ex[e].cancelled /\ (CallerOnMessage(e) \/ CallerOnError(e))) =>
         UNCHANGED <<progress, isComplete, isProcessing, exportResult>>]_vars

\* ------------------------------------------------------------------ edits: bore and history
\* C29: after every handleParamChange the stored boreDiameter is at least 0 and at
\* most 0.75 * the stored rootDiameter.
C29_BoreWithinRoot ==
  edits > 0 =>
    /\ RLe(Num(0), params.boreDiameter)
    /\ RLe(params.boreDiameter, RMul(Rat(3, 4), params.rootDiameter))

C29_Witness ==
  /\ edits > 0
  /\ lastEdit.key = "module"
  /\ RLt(params.boreDiameter, DEFAULT_GEAR_PARAMS.boreDiameter)
  /\ params.boreDiameter = RMul(Rat(3, 4), params.rootDiameter)

Three == {"module", "teethCount", "outerDiameter"}

\* C30: after an edit of module, teethCount or outerDiameter the parameter chosen
\* for recomputation is not the edited one: it is the first of module, teethCount,
\* outerDiameter that was never edited, or else the least recently edited of the
\* other two; the history has one entry per edited parameter, the edited one last;
\* the stored value of the edited parameter is the value entered.
C30_OldestParamChosen ==
  /\ \A i, j \in 1..Len(editHistory) : i # j => editHistory[i] # editHistory[j]
  /\ (lastEdit.pc = "changed" /\ lastEdit.key \in Three) =>
       LET never == {q \in Three : \A k \in 1..Len(editHistory) : editHistory[k] # q}
           chosen == lastEdit.oldestParam
       IN /\ chosen \in Three \ {lastEdit.key}
          /\ "module" \in never => chosen = "module"
          /\ ("module" \notin never /\ "teethCount" \in never) => chosen = "teethCount"
          /\ (never = {"outerDiameter"}) => chosen = "outerDiameter"
          /\ never = {} => chosen = editHistory[1] /\ Len(editHistory) = 3
          /\ editHistory[Len(editHistory)] = lastEdit.key
          /\ params[lastEdit.key] = lastEdit.value

C30_Witness ==
  /\ lastEdit.pc = "changed"
  /\ editHistory = <<"teethCount", "module", "outerDiameter">>
  /\ lastEdit.key = "outerDiameter"
  /\ lastEdit.oldestParam = "teethCount"
  /\ params.outerDiameter = lastEdit.value

====
